---- MODULE Spec2Model ----
(***************************************************************************)
(* Wedding guestbook: the submission / moderation / public-feed handlers   *)
(* of server/index.js over the guestbook_entries table of db/init.sql, and *)
(* the archival exporter (the backup script printed in README.md and       *)
(* scripts/generate-html.js).                                              *)
(*                                                                         *)
(* Every HTTP handler issues at most one SQL statement, and that statement *)
(* is the only point where it touches shared state; everything before it   *)
(* works on request-local data.  Each handler is therefore one atomic      *)
(* action taken at the instant of its SQL statement, and any interleaving  *)
(* of concurrent requests is a sequence of these actions.                  *)
(***************************************************************************)
EXTENDS Naturals, Sequences, FiniteSets, TLC

VARIABLES
    ADMIN_PASSWORD,        \* process.env.ADMIN_PASSWORD (a JS value)
    cloudinaryConfigured,  \* index.js:18, computed once at startup
    guestbook_entries,     \* rows of the table: set of records
    id_seq,                \* last value handed out by the SERIAL sequence of id
    now,                   \* the store's clock: NOW() of the latest transaction
    removed,               \* history: ids of rows a DELETE has returned
    req,                   \* the request being served by the latest handler run
    res,                   \* the response that handler sent
    uploads,               \* files that handler passed to uploadToCloudinary
    entry,                 \* exporter: the entry handed to renderEntry
    html,                  \* exporter: what renderEntry made of it
    BACKUP_DIR,            \* exporter: the backup/ folder on disk
    runs                   \* exporter: how many times a script has been run

vars == <<ADMIN_PASSWORD, cloudinaryConfigured, guestbook_entries, id_seq,
          now, removed, req, res, uploads, entry, html, BACKUP_DIR, runs>>

(***************************************************************************)
(* Bounds of the model.                                                    *)
(***************************************************************************)
MaxInserts   == 2   \* rows ever inserted
MaxFilesSent == 6   \* files a multipart request carries
MaxClock     == 3   \* latest instant of the store's clock
MaxTextLen   == 4   \* characters of a text the exporter renders
MaxRuns      == 2   \* runs of the exporter's scripts
MaxEntryId   == 4   \* ids of the rows of a closed guestbook

(***************************************************************************)
(* JavaScript values: undefined, or a string / boolean carrying a value.   *)
(* Text (name, note) is a sequence of one-character strings.               *)
(***************************************************************************)
Undefined == [type |-> "undefined"]
Str(s)    == [type |-> "string", v |-> s]
Bool(b)   == [type |-> "boolean", v |-> b]

\* JS `!x` for x undefined or a string: undefined and "" are falsy.
Not(x) == x = Undefined \/ (x.type = "string" /\ x.v = <<>>)

\* obj[key] of a JS object modelled as a function from its own keys.
Get(obj, key) == IF key \in DOMAIN obj THEN obj[key] ELSE Undefined

(***************************************************************************)
(* multer configuration, index.js:29-36 and :68.                           *)
(***************************************************************************)
FileSizeLimit == 25   \* limits.fileSize, in MB
MaxCount      == 5    \* upload.array('photos', 5)
MaxNameLength == 120  \* name.length > 120

allowed == {"image/jpeg", "image/png", "image/gif", "image/webp"}

fileFilter(file) == file.mimetype \in allowed

\* The files of the request that multer keeps: those the fileFilter accepts,
\* in the order they were sent.
AcceptedFiles(files) ==
    SelectSeq(files, fileFilter)

\* multerScan without the count of file parts.
RECURSIVE multerScanNoCount(_, _)
multerScanNoCount(files, i) ==
    IF i > Len(files) THEN "ok"
    ELSE IF fileFilter(files[i]) /\ files[i].size > FileSizeLimit THEN "LIMIT_FILE_SIZE"
    ELSE multerScanNoCount(files, i + 1)

\* upload.array('photos', 5) run over the multipart stream.  Every file part
\* is counted against maxCount before the fileFilter sees it; an accepted
\* file that grows past limits.fileSize aborts the request; a file the
\* filter refuses is drained without a size check.  The first offending part
\* decides the error code.  (Whether a file of exactly limits.fileSize bytes
\* is cut off depends on the version of multer's parser, so the model sends
\* no file of that size.)
RECURSIVE multerScan(_, _)
multerScan(files, i) ==
    IF i > Len(files) THEN "ok"
    ELSE IF i > MaxCount THEN "LIMIT_UNEXPECTED_FILE"
    ELSE IF fileFilter(files[i]) /\ files[i].size > FileSizeLimit THEN "LIMIT_FILE_SIZE"
    ELSE multerScan(files, i + 1)


(***************************************************************************)
(* Requests the model submits.                                             *)
(* A file is what multer and Cloudinary see of it: its declared mimetype,  *)
(* its size in MB, and what the Cloudinary callback would answer for it    *)
(* (cloudOk = no error; url = result.secure_url).                          *)
(***************************************************************************)
File(mimetype, size, cloudOk, url) ==
    [mimetype |-> mimetype, size |-> size, cloudOk |-> cloudOk, url |-> url]

Good(i)     == File("image/jpeg", 1, TRUE, i)
Small(i)    == File("image/png", FileSizeLimit - 1, TRUE, i)
TooLarge(i) == File("image/jpeg", FileSizeLimit + 1, TRUE, i)
BadType(i)  == File("application/pdf", 1, TRUE, i)
BigBad(i)   == File("application/pdf", FileSizeLimit + 1, TRUE, i)
Rejected(i) == File("image/webp", 1, FALSE, i)

AllGood(n) == [i \in 1..n |-> Good(i)]

FileLists ==
    {<<>>}
    \cup {<<Good(1)>>, <<Small(1)>>, <<TooLarge(1)>>, <<BadType(1)>>,
          <<BigBad(1)>>, <<Rejected(1)>>}
    \cup {<<Rejected(1), Good(2)>>, <<Good(1), BadType(2)>>, <<Good(1), TooLarge(2)>>}
    \cup {<<Good(1), Rejected(2), Small(3)>>}
    \cup {AllGood(n) : n \in MaxCount..MaxFilesSent}
    \cup {[i \in 1..MaxFilesSent |-> IF i = 1 THEN BadType(i) ELSE Good(i)]}

TextOfLength(n) == [i \in 1..n |-> "x"]

Names == {Undefined, Str(<<>>), Str(TextOfLength(1)),
          Str(TextOfLength(MaxNameLength)), Str(TextOfLength(MaxNameLength + 1))}
Notes == {Undefined, Str(<<>>), Str(<<"<", "3">>)}
PrivateFlags == {Undefined, Str(<<"t", "r", "u", "e">>), Str(<<"f", "a", "l", "s", "e">>)}

\* req.body of a multipart form: only the fields that were sent are keys.
FormBody(name, note, private) ==
    LET sent == {k \in {"name", "note", "private"} :
                    CASE k = "name" -> name # Undefined
                      [] k = "note" -> note # Undefined
                      [] k = "private" -> private # Undefined}
    IN [k \in sent |-> CASE k = "name" -> name
                         [] k = "note" -> note
                         [] k = "private" -> private]

PasswordHeaders == {Undefined, Str(<<"s", "3", "c", "r", "e", "t">>), Str(<<"g", "u", "e", "s", "s">>)}
Headers(password) ==
    IF password = Undefined THEN <<>>
    ELSE [k \in {"x-admin-password"} |-> password]

Ids == 1..(MaxInserts + 1)

(***************************************************************************)
(* The table and its queries.                                              *)
(***************************************************************************)
Response(status, body) == [status |-> status, body |-> body]

RowIds(rows) == {r.id : r \in rows}

\* ORDER BY created_at without DESC.
RECURSIVE OrderByCreatedAtNoDesc(_)
OrderByCreatedAtNoDesc(rows) ==
    IF rows = {} THEN <<>>
    ELSE LET first == CHOOSE r \in rows : \A q \in rows : r.created_at <= q.created_at
         IN <<first>> \o OrderByCreatedAtNoDesc(rows \ {first})

RECURSIVE OrderByCreatedAtDesc(_)
OrderByCreatedAtDesc(rows) ==
    IF rows = {} THEN <<>>
    ELSE LET first == CHOOSE r \in rows : \A q \in rows : q.created_at <= r.created_at
         IN <<first>> \o OrderByCreatedAtDesc(rows \ {first})

RECURSIVE OrderByCreatedAtAsc(_)
OrderByCreatedAtAsc(rows) ==
    IF rows = {} THEN <<>>
    ELSE LET first == CHOOSE r \in rows : \A q \in rows : r.created_at <= q.created_at
         IN <<first>> \o OrderByCreatedAtAsc(rows \ {first})

\* SelectApproved with the WHERE clause forgotten.
SelectApprovedNoWhere(rows) ==
    LET listed == OrderByCreatedAtDesc(rows)
    IN [i \in 1..Len(listed) |->
            [id |-> listed[i].id, name |-> listed[i].name, note |-> listed[i].note,
             photos |-> listed[i].photos, created_at |-> listed[i].created_at]]

\* SELECT id, name, note, photos, created_at ... WHERE approved = true
\*   ORDER BY created_at DESC
SelectApproved(rows) ==
    LET hits == {r \in rows : r.approved = TRUE}
        listed == OrderByCreatedAtDesc(hits)
    IN [i \in 1..Len(listed) |->
            [id |-> listed[i].id, name |-> listed[i].name, note |-> listed[i].note,
             photos |-> listed[i].photos, created_at |-> listed[i].created_at]]

\* SELECT id, name, note, photos, created_at, approved ... ORDER BY created_at DESC
SelectAll(rows) == OrderByCreatedAtDesc(rows)

\* An id computed as the largest id in the table plus one.
NextValMaxPlusOne(seq, rows) ==
    IF rows = {} THEN 1
    ELSE (CHOOSE i \in RowIds(rows) : \A j \in RowIds(rows) : j <= i) + 1

\* nextval of the SERIAL column's sequence
NextVal(seq, rows) == seq + 1

\* UpdateApproved with the WHERE clause forgotten.
UpdateApprovedNoWhere(rows, id, approved) ==
    {[r EXCEPT !.approved = approved] : r \in rows}

\* UpdateApproved writing the whole row back, without its photos.
UpdateApprovedDropsPhotos(rows, id, approved) ==
    {IF r.id = id THEN [r EXCEPT !.approved = approved, !.photos = <<>>] ELSE r : r \in rows}

\* UPDATE ... SET approved = $1 WHERE id = $2
UpdateApproved(rows, id, approved) ==
    {IF r.id = id THEN [r EXCEPT !.approved = approved] ELSE r : r \in rows}

\* DELETE ... WHERE id = $1
DeleteWhereId(rows, id) == {r \in rows : r.id # id}

(***************************************************************************)
(* Startup.                                                                *)
(***************************************************************************)
NoEntry == [id |-> 0]
NotRendered == [done |-> FALSE]

\* The backup/ folder before the first run of the exporter.
Null == [type |-> "null"]

NoFile == [exists |-> FALSE]
EmptyDir == [photos |-> {}, json |-> NoFile, html |-> {}]

ServerInit ==
    /\ ADMIN_PASSWORD \in {Undefined, Str(<<"s", "3", "c", "r", "e", "t">>)}
    /\ cloudinaryConfigured \in BOOLEAN
    /\ guestbook_entries = {}
    /\ id_seq = 0
    /\ now = 0
    /\ removed = {}
    /\ req = [op |-> "listen"]
    /\ res = Response(0, <<>>)
    /\ uploads = <<>>

Init ==
    /\ ServerInit
    /\ entry = NoEntry
    /\ html = NotRendered
    /\ BACKUP_DIR = EmptyDir
    /\ runs = 0

(***************************************************************************)
(* POST /api/entries  (handleUpload, then the handler), index.js:67-136    *)
(***************************************************************************)
\* The upload loop of index.js:93-111: the files handed to uploadToCloudinary.
FilesToUpload(files, configured) ==
    IF Len(files) > 0 /\ configured THEN files ELSE <<>>

\* CollectPhotos pushing a url whether or not the upload resolved.
RECURSIVE CollectPhotosKeepFailed(_, _)
CollectPhotosKeepFailed(files, i) ==
    IF i > Len(files) THEN <<>>
    ELSE <<files[i].url>> \o CollectPhotosKeepFailed(files, i + 1)

\* CollectPhotos putting each new url in front (unshift for push).
RECURSIVE CollectPhotosNewestFirst(_, _)
CollectPhotosNewestFirst(files, i) ==
    IF i > Len(files) THEN <<>>
    ELSE IF files[i].cloudOk THEN CollectPhotosNewestFirst(files, i + 1) \o <<files[i].url>>
    ELSE CollectPhotosNewestFirst(files, i + 1)

\* photos after the loop: the secure_url of every upload that resolved.
RECURSIVE CollectPhotos(_, _)
CollectPhotos(files, i) ==
    IF i > Len(files) THEN <<>>
    ELSE IF files[i].cloudOk THEN <<files[i].url>> \o CollectPhotos(files, i + 1)
    ELSE CollectPhotos(files, i + 1)

IsPrivate(body) == Get(body, "private") = Str(<<"t", "r", "u", "e">>)

\* ApprovedFor ignoring the private flag (the column's DEFAULT true).
ApprovedAlways(isPrivate) == TRUE

ApprovedFor(isPrivate) == ~isPrivate

\* ValidationError without the length check.
ValidationErrorNoLength(name, note) ==
    IF Not(name) \/ Not(note) THEN "Name and note are required" ELSE ""

\* The validation of index.js:84-90: "" when the input passes, else the error.
ValidationError(name, note) ==
    IF Not(name) \/ Not(note) THEN "Name and note are required"
    ELSE IF Len(name.v) > MaxNameLength THEN "Name must be 120 characters or less"
    ELSE ""

\* created_at is NOW() of the INSERT: each insert happens at a later instant
\* of the store's clock than the one before it.
PostEntries(body, files, sqlOk) ==
    LET err      == multerScan(files, 1)
        name     == Get(body, "name")
        note     == Get(body, "note")
        invalid  == ValidationError(name, note)
        sent     == FilesToUpload(AcceptedFiles(files), cloudinaryConfigured)
        photos   == CollectPhotos(sent, 1)
        approved == ApprovedFor(IsPrivate(body))
        id       == NextVal(id_seq, guestbook_entries)
        row      == [id |-> id, name |-> name.v, note |-> note.v, photos |-> photos,
                     approved |-> approved, created_at |-> now + 1]
    IN
    /\ req' = [op |-> "POST /api/entries", body |-> body, files |-> files, sqlOk |-> sqlOk]
    /\ UNCHANGED <<ADMIN_PASSWORD, cloudinaryConfigured, removed, entry, html, BACKUP_DIR, runs>>
    /\ IF err = "LIMIT_FILE_SIZE" THEN
            /\ res' = Response(400, [error |-> "File too large. Maximum size is 25MB."])
            /\ uploads' = <<>>
            /\ UNCHANGED <<guestbook_entries, id_seq, now>>
       ELSE IF err # "ok" THEN
            /\ res' = Response(400, [error |-> "File upload error: " \o err])
            /\ uploads' = <<>>
            /\ UNCHANGED <<guestbook_entries, id_seq, now>>
       ELSE IF invalid # "" THEN
            /\ res' = Response(400, [error |-> invalid])
            /\ uploads' = <<>>
            /\ UNCHANGED <<guestbook_entries, id_seq, now>>
       ELSE IF ~sqlOk THEN
            /\ uploads' = sent
            /\ res' = Response(500, [error |-> "Failed to submit entry"])
            /\ UNCHANGED <<guestbook_entries, id_seq, now>>
       ELSE /\ id_seq < MaxInserts
            /\ uploads' = sent
            /\ guestbook_entries' = guestbook_entries \cup {row}
            /\ id_seq' = id
            /\ now' = now + 1
            /\ res' = Response(200,
                   [success |-> TRUE,
                    message |-> IF IsPrivate(body)
                                THEN "Thank you! Your private message has been sent to the couple."
                                ELSE "Thank you for signing the guestbook!",
                    entry |-> [id |-> row.id, name |-> row.name, created_at |-> row.created_at]])

(***************************************************************************)
(* GET /api/entries, index.js:139-152                                      *)
(***************************************************************************)
GetEntries(sqlOk) ==
    /\ req' = [op |-> "GET /api/entries", sqlOk |-> sqlOk]
    /\ res' = IF sqlOk THEN Response(200, SelectApproved(guestbook_entries))
              ELSE Response(500, [error |-> "Failed to fetch entries"])
    /\ uploads' = <<>>
    /\ UNCHANGED <<ADMIN_PASSWORD, cloudinaryConfigured, guestbook_entries, id_seq, now,
                   removed, entry, html, BACKUP_DIR, runs>>

(***************************************************************************)
(* Admin endpoints, index.js:157-228                                       *)
(***************************************************************************)
\* adminAuth calls next() exactly when the header is not !== the secret.
adminAuth(headers) == ~(Get(headers, "x-admin-password") # ADMIN_PASSWORD)

Unauthorized == Response(401, [error |-> "Unauthorized"])

GetAdminEntries(headers, sqlOk) ==
    /\ req' = [op |-> "GET /api/admin/entries", headers |-> headers, sqlOk |-> sqlOk]
    /\ res' = IF ~adminAuth(headers) THEN Unauthorized
              ELSE IF ~sqlOk THEN Response(500, [error |-> "Failed to fetch entries"])
              ELSE Response(200, SelectAll(guestbook_entries))
    /\ uploads' = <<>>
    /\ UNCHANGED <<ADMIN_PASSWORD, cloudinaryConfigured, guestbook_entries, id_seq, now,
                   removed, entry, html, BACKUP_DIR, runs>>

PatchEntry(headers, id, approved, sqlOk) ==
    LET hit == {r \in guestbook_entries : r.id = id}
        updated == UpdateApproved(guestbook_entries, id, approved.v)
    IN
    /\ req' = [op |-> "PATCH /api/admin/entries/:id", headers |-> headers,
               params |-> [id |-> id], body |-> [approved |-> approved], sqlOk |-> sqlOk]
    /\ uploads' = <<>>
    /\ UNCHANGED <<ADMIN_PASSWORD, cloudinaryConfigured, id_seq, now, removed, entry, html, BACKUP_DIR, runs>>
    /\ IF ~adminAuth(headers) THEN
            /\ res' = Unauthorized
            /\ UNCHANGED guestbook_entries
       ELSE IF approved.type # "boolean" THEN
            /\ res' = Response(400, [error |-> "approved must be a boolean"])
            /\ UNCHANGED guestbook_entries
       ELSE IF ~sqlOk THEN
            /\ res' = Response(500, [error |-> "Failed to update entry"])
            /\ UNCHANGED guestbook_entries
       ELSE /\ guestbook_entries' = updated
            /\ res' = IF hit = {} THEN Response(404, [error |-> "Entry not found"])
                      ELSE LET r == CHOOSE r \in updated : r.id = id
                           IN Response(200, [success |-> TRUE,
                                  entry |-> [id |-> r.id, name |-> r.name, approved |-> r.approved]])

DeleteEntry(headers, id, sqlOk) ==
    LET hit == {r \in guestbook_entries : r.id = id}
    IN
    /\ req' = [op |-> "DELETE /api/admin/entries/:id", headers |-> headers,
               params |-> [id |-> id], sqlOk |-> sqlOk]
    /\ uploads' = <<>>
    /\ UNCHANGED <<ADMIN_PASSWORD, cloudinaryConfigured, id_seq, now, entry, html, BACKUP_DIR, runs>>
    /\ IF ~adminAuth(headers) THEN
            /\ res' = Unauthorized
            /\ UNCHANGED <<guestbook_entries, removed>>
       ELSE IF ~sqlOk THEN
            /\ res' = Response(500, [error |-> "Failed to delete entry"])
            /\ UNCHANGED <<guestbook_entries, removed>>
       ELSE /\ guestbook_entries' = DeleteWhereId(guestbook_entries, id)
            /\ removed' = removed \cup RowIds(hit)
            /\ res' = IF hit = {} THEN Response(404, [error |-> "Entry not found"])
                      ELSE Response(200, [success |-> TRUE, message |-> "Entry deleted"])

(***************************************************************************)
(* The exporter's rendering, generate-html.js:51-76 (the same functions    *)
(* stand in the backup script, README.md:224-257).                         *)
(***************************************************************************)
\* str.replace(/ch/g, entity): every occurrence of ch, left to right.
RECURSIVE replace(_, _, _)
replace(str, ch, entity) ==
    IF str = <<>> THEN <<>>
    ELSE (IF Head(str) = ch THEN entity ELSE <<Head(str)>>) \o replace(Tail(str), ch, entity)

AmpEntity  == <<"&", "a", "m", "p", ";">>
LtEntity   == <<"&", "l", "t", ";">>
GtEntity   == <<"&", "g", "t", ";">>
QuotEntity == <<"&", "q", "u", "o", "t", ";">>

\* escapeHtml with the ampersand replaced last.
escapeHtmlAmpLast(str) ==
    replace(replace(replace(replace(str, "<", LtEntity), ">", GtEntity), "\"", QuotEntity),
            "&", AmpEntity)

escapeHtml(str) ==
    replace(replace(replace(replace(str, "&", AmpEntity), "<", LtEntity), ">", GtEntity),
            "\"", QuotEntity)

\* The two places where renderEntry embeds user text: the content of
\* <h3 class="entry-name"> and of <p class="entry-note">.
renderEntry(e) ==
    [done |-> TRUE, entry_name |-> escapeHtml(e.name), entry_note |-> escapeHtml(e.note)]

(***************************************************************************)
(* The archival exporter, main() of the backup script (README.md:146-222). *)
(* BACKUP_DIR is the backup/ folder: photos is PHOTOS_DIR, json is         *)
(* guestbook-data.json, html the generated documents.  The bytes behind a  *)
(* url are identified with the url.                                        *)
(* The run's raw export also stands in res.                                *)
(***************************************************************************)
\* fs.writeFileSync for each file of `written`: a file of that name is
\* created or overwritten, every other file stays.  A directory is the set
\* of its files, each a name and a content.
writeFiles(dir, written) ==
    {f \in dir : \A w \in written : w.name # f.name} \cup written

\* The content-type header the photo host answers for a url ("" = no header).
contentTypeOf(url) ==
    CASE url % 4 = 1 -> "image/jpeg"
      [] url % 4 = 2 -> "image/png"
      [] url % 4 = 3 -> "image/avif"
      [] OTHER -> ""

\* { 'image/jpeg': '.jpg', ... }[contentType] || '.jpg'
extOf(contentType) ==
    CASE contentType = "image/jpeg" -> ".jpg"
      [] contentType = "image/png" -> ".png"
      [] contentType = "image/gif" -> ".gif"
      [] contentType = "image/webp" -> ".webp"
      [] OTHER -> ".jpg"

\* `entry-${entryId}-photo-${photoIndex}${ext}`
photoFile(entryId, photoIndex, ext) ==
    [entry |-> entryId, photo |-> photoIndex, ext |-> ext]

\* downloadImage: ok = the fetch answered 2xx and the file could be written;
\* anything else is caught and gives null.
downloadImage(url, entryId, photoIndex, ok) ==
    IF ~ok THEN Null
    ELSE LET header == contentTypeOf(url)
             contentType == IF header = "" THEN "image/jpeg" ELSE header
         IN [dataUri |-> [mime |-> contentType, base64 |-> url],
             filename |-> photoFile(entryId, photoIndex, extOf(contentType))]

\* embeddedPhotosOf giving up on an entry's photos at the first failure.
RECURSIVE embeddedPhotosUntilFailure(_, _, _)
embeddedPhotosUntilFailure(e, failed, i) ==
    IF i > Len(e.photos) THEN <<>>
    ELSE LET result == downloadImage(e.photos[i], e.id, i, <<e.id, i>> \notin failed)
         IN IF result # Null
            THEN <<result.dataUri>> \o embeddedPhotosUntilFailure(e, failed, i + 1)
            ELSE <<>>

\* The inner loop of README.md:164-175: embedded after the photos from i on.
\* failed = the (entry id, photo index) pairs whose download fails in this run.
RECURSIVE embeddedPhotosOf(_, _, _)
embeddedPhotosOf(e, failed, i) ==
    IF i > Len(e.photos) THEN <<>>
    ELSE LET result == downloadImage(e.photos[i], e.id, i, <<e.id, i>> \notin failed)
         IN (IF result # Null THEN <<result.dataUri>> ELSE <<>>)
                \o embeddedPhotosOf(e, failed, i + 1)

\* The outer loop of README.md:161-180: every entry gets its embeddedPhotos.
downloadAll(entries, failed) ==
    [k \in 1..Len(entries) |->
        [id |-> entries[k].id, name |-> entries[k].name, note |-> entries[k].note,
         photos |-> entries[k].photos, created_at |-> entries[k].created_at,
         approved |-> entries[k].approved,
         embeddedPhotos |-> embeddedPhotosOf(entries[k], failed, 1)]]

\* The files the downloads of the run wrote to PHOTOS_DIR:
\* fs.writeFileSync(path.join(PHOTOS_DIR, filename), buffer).
savedPhotos(entries, failed) ==
    UNION {{[name |-> downloadImage(entries[k].photos[i], entries[k].id, i, TRUE).filename,
             content |-> entries[k].photos[i]] :
                i \in {i \in 1..Len(entries[k].photos) : <<entries[k].id, i>> \notin failed}} :
           k \in 1..Len(entries)}

\* SELECT id, name, note, photos, created_at, approved ... ORDER BY created_at ASC
SelectAllAsc(rows) == OrderByCreatedAtAsc(rows)

jsonData(entries) ==
    [i \in 1..Len(entries) |->
        [id |-> entries[i].id, name |-> entries[i].name, note |-> entries[i].note,
         approved |-> entries[i].approved, created_at |-> entries[i].created_at,
         photo_urls |-> entries[i].photos]]

RECURSIVE photoCount(_)
photoCount(allEntries) ==
    IF allEntries = <<>> THEN 0
    ELSE Len(Head(allEntries).embeddedPhotos) + photoCount(Tail(allEntries))

\* buildHTML: the title, the two counts of the header, and one block per
\* entry, in the order given: the rendered text and the src of every <img>.
\* (id is not printed in the document; it is kept to tell the blocks apart.)
buildHTML(allEntries, title) ==
    [title |-> title,
     messages |-> Len(allEntries),
     photos |-> photoCount(allEntries),
     entries |-> [k \in 1..Len(allEntries) |->
                    [id |-> allEntries[k].id,
                     text |-> renderEntry(allEntries[k]),
                     img |-> allEntries[k].embeddedPhotos]]]

\* for (const v of variants) fs.writeFileSync(outPath, buildHTML(v.data, v.title))
writeVariants(dir, variants) ==
    writeFiles(dir, {[name |-> variants[k].file,
                      content |-> buildHTML(variants[k].data, variants[k].title)] :
                        k \in 1..Len(variants)})

isApproved(e) == e.approved = TRUE

\* entries.slice(3)
slice3(entries) == SubSeq(entries, 4, Len(entries))

\* The four variants of README.md:196-205.
mainVariants(entries) ==
    LET cleanEntries == slice3(entries)
        publicEntries == SelectSeq(entries, isApproved)
        cleanPublicEntries == SelectSeq(cleanEntries, isApproved)
    IN << [file |-> "time-capsule-full-with-tests.html", data |-> entries,
           title |-> "Wedding Guestbook - Complete Archive (incl. test posts)"],
          [file |-> "time-capsule-public-with-tests.html", data |-> publicEntries,
           title |-> "Wedding Guestbook - Public (incl. test posts)"],
          [file |-> "time-capsule-full.html", data |-> cleanEntries,
           title |-> "Wedding Guestbook - Complete Archive"],
          [file |-> "time-capsule-public.html", data |-> cleanPublicEntries,
           title |-> "Wedding Guestbook"] >>

\* main().catch: a failing query ends the run with exit code 1 before
\* anything is written.
main(sqlOk, failed) ==
    LET rows == SelectAllAsc(guestbook_entries)
        entries == downloadAll(rows, failed)
    IN
    /\ runs < MaxRuns
    /\ runs' = runs + 1
    /\ req' = [op |-> "backup", sqlOk |-> sqlOk, failed |-> failed]
    /\ uploads' = <<>>
    /\ UNCHANGED <<ADMIN_PASSWORD, cloudinaryConfigured, guestbook_entries, id_seq, now,
                   removed, entry, html>>
    /\ IF ~sqlOk THEN
            /\ res' = Response(1, [error |-> "Export failed:"])
            /\ UNCHANGED BACKUP_DIR
       ELSE /\ res' = Response(0, jsonData(rows))
            /\ BACKUP_DIR' =
                  [photos |-> writeFiles(BACKUP_DIR.photos, savedPhotos(rows, failed)),
                   json |-> [exists |-> TRUE, data |-> jsonData(entries)],
                   html |-> writeVariants(BACKUP_DIR.html, mainVariants(entries))]

(***************************************************************************)
(* The offline re-run, scripts/generate-html.js:1-47: the documents are    *)
(* rebuilt from guestbook-data.json and the photo files on disk.  An       *)
(* uncaught exception ends the script with exit code 1.                    *)
(***************************************************************************)
extensions == <<".jpg", ".png", ".gif", ".webp">>

\* ext === 'jpg' ? 'image/jpeg' : `image/${ext}`
mimeOf(ext) ==
    CASE ext = ".jpg" -> "image/jpeg"
      [] ext = ".png" -> "image/png"
      [] ext = ".gif" -> "image/gif"
      [] ext = ".webp" -> "image/webp"

\* The first of the candidate paths that exists, or undefined.
findPhoto(dir, entryId, photoIndex) ==
    LET names == {f.name : f \in dir}
        found == {k \in 1..Len(extensions) :
                     photoFile(entryId, photoIndex, extensions[k]) \in names}
    IN IF found = {} THEN Undefined
       ELSE photoFile(entryId, photoIndex,
                      extensions[CHOOSE k \in found : \A j \in found : k <= j])

\* fs.readFileSync(match)
readFile(dir, name) == (CHOOSE f \in dir : f.name = name).content

\* localPhotosOf embedding a placeholder for a photo that is not on disk.
RECURSIVE localPhotosWithPlaceholder(_, _, _)
localPhotosWithPlaceholder(e, dir, i) ==
    IF i > Len(e.photo_urls) THEN <<>>
    ELSE LET match == findPhoto(dir, e.id, i)
         IN (IF match # Undefined
             THEN <<[mime |-> mimeOf(match.ext), base64 |-> readFile(dir, match)]>>
             ELSE <<[mime |-> "image/jpeg", base64 |-> e.photo_urls[i]]>>)
                \o localPhotosWithPlaceholder(e, dir, i + 1)

\* The inner loop of generate-html.js:13-24, from photo i on.
RECURSIVE localPhotosOf(_, _, _)
localPhotosOf(e, dir, i) ==
    IF i > Len(e.photo_urls) THEN <<>>
    ELSE LET match == findPhoto(dir, e.id, i)
         IN (IF match # Undefined
             THEN <<[mime |-> mimeOf(match.ext), base64 |-> readFile(dir, match)]>>
             ELSE <<>>)
                \o localPhotosOf(e, dir, i + 1)

\* generate-html.js:11-25
loadAll(entries, dir) ==
    [k \in 1..Len(entries) |->
        [id |-> entries[k].id, name |-> entries[k].name, note |-> entries[k].note,
         approved |-> entries[k].approved, created_at |-> entries[k].created_at,
         photo_urls |-> entries[k].photo_urls,
         embeddedPhotos |-> localPhotosOf(entries[k], dir, 1)]]

\* new Set([entries[0].id, entries[1].id, entries[2].id]); reading .id of a
\* missing element throws.
TEST_IDS(entries) == {entries[1].id, entries[2].id, entries[3].id}

\* The three variants of generate-html.js:31-37.
generateVariants(entries) ==
    LET notTest(e) == e.id \notin TEST_IDS(entries)
        cleanEntries == SelectSeq(entries, notTest)
    IN << [file |-> "time-capsule-all-with-tests.html", data |-> entries,
           title |-> "Wedding Guestbook - Complete Archive (incl. test posts)"],
          [file |-> "time-capsule-full.html", data |-> cleanEntries,
           title |-> "Wedding Guestbook - Complete Archive"],
          [file |-> "time-capsule-public.html", data |-> SelectSeq(cleanEntries, isApproved),
           title |-> "Wedding Guestbook"] >>

generate_html ==
    /\ runs < MaxRuns
    /\ runs' = runs + 1
    /\ req' = [op |-> "generate-html"]
    /\ uploads' = <<>>
    /\ UNCHANGED <<ADMIN_PASSWORD, cloudinaryConfigured, guestbook_entries, id_seq, now,
                   removed, entry, html>>
    /\ IF ~BACKUP_DIR.json.exists THEN
            /\ res' = Response(1, [error |-> "ENOENT: no such file or directory"])
            /\ UNCHANGED BACKUP_DIR
       ELSE LET entries == loadAll(BACKUP_DIR.json.data, BACKUP_DIR.photos)
            IN IF Len(entries) < 3 THEN
                    /\ res' = Response(1, [error |-> "TypeError: Cannot read properties of undefined (reading 'id')"])
                    /\ UNCHANGED BACKUP_DIR
               ELSE /\ res' = Response(0, BACKUP_DIR.json.data)
                    /\ BACKUP_DIR' =
                          [BACKUP_DIR EXCEPT
                              !.html = writeVariants(@, generateVariants(entries))]

(***************************************************************************)
(* Time passes between transactions.                                       *)
(***************************************************************************)
Tick ==
    /\ now + (MaxInserts - id_seq) < MaxClock
    /\ now' = now + 1
    /\ UNCHANGED <<ADMIN_PASSWORD, cloudinaryConfigured, guestbook_entries, id_seq,
                   removed, req, res, uploads, entry, html, BACKUP_DIR, runs>>

(***************************************************************************)
(* The system.                                                             *)
(***************************************************************************)
\* The submissions of the submission-service specification: every combination
\* of the text fields with one good file attached; every file list with valid
\* text, public and private; the shortest valid name; a failing INSERT.
ValidNote == Str(<<"<", "3">>)
PrivateTrue == Str(<<"t", "r", "u", "e">>)
SubmissionCases ==
    {[name |-> name, note |-> note, private |-> Undefined,
      files |-> <<Good(1)>>, sqlOk |-> TRUE] : name \in Names, note \in Notes}
    \cup {[name |-> Str(TextOfLength(MaxNameLength)), note |-> ValidNote, private |-> private,
           files |-> files, sqlOk |-> TRUE] :
              private \in {Undefined, PrivateTrue}, files \in FileLists}
    \cup {[name |-> Str(TextOfLength(1)), note |-> ValidNote,
           private |-> Str(<<"f", "a", "l", "s", "e">>), files |-> <<>>, sqlOk |-> TRUE],
          [name |-> Str(TextOfLength(1)), note |-> ValidNote,
           private |-> Undefined, files |-> <<Rejected(1), Good(2)>>, sqlOk |-> FALSE]}

\* The submissions of the whole-system specification: public and private,
\* without photos and with one of two uploads failing; one that fails
\* validation and one whose INSERT fails.
Submissions ==
    {[name |-> Str(TextOfLength(1)), note |-> ValidNote, private |-> private,
      files |-> files, sqlOk |-> TRUE] :
        private \in {Undefined, PrivateTrue}, files \in {<<>>, <<Rejected(1), Good(2)>>}}
    \cup {[name |-> Str(<<>>), note |-> ValidNote, private |-> Undefined,
           files |-> <<Good(1)>>, sqlOk |-> TRUE],
          [name |-> Str(TextOfLength(1)), note |-> ValidNote, private |-> Undefined,
           files |-> <<>>, sqlOk |-> FALSE]}

\* The moderation requests: every credential with every id and flag, a
\* non-boolean flag, and one request whose statement fails.
Approvals ==
    {[password |-> password, id |-> id, approved |-> Bool(b), sqlOk |-> TRUE] :
        password \in PasswordHeaders, id \in Ids, b \in BOOLEAN}
    \cup {[password |-> password, id |-> 1, approved |-> Undefined, sqlOk |-> TRUE] :
            password \in PasswordHeaders}
    \cup {[password |-> ADMIN_PASSWORD, id |-> 1, approved |-> Bool(FALSE), sqlOk |-> FALSE]}

Removals ==
    {[password |-> password, id |-> id, sqlOk |-> TRUE] :
        password \in PasswordHeaders, id \in Ids}
    \cup {[password |-> ADMIN_PASSWORD, id |-> 1, sqlOk |-> FALSE]}

Listings ==
    {[password |-> password, sqlOk |-> TRUE] : password \in PasswordHeaders}
    \cup {[password |-> ADMIN_PASSWORD, sqlOk |-> FALSE]}

Submit ==
    \E s \in Submissions :
        PostEntries(FormBody(s.name, s.note, s.private), s.files, s.sqlOk)

Feed == \E sqlOk \in BOOLEAN : GetEntries(sqlOk)

ListAll == \E l \in Listings : GetAdminEntries(Headers(l.password), l.sqlOk)

Approve == \E a \in Approvals : PatchEntry(Headers(a.password), a.id, a.approved, a.sqlOk)

Remove == \E r \in Removals : DeleteEntry(Headers(r.password), r.id, r.sqlOk)

\* The references (entry id, photo index) of the photos in the table.
PhotoRefs(rows) == UNION {{<<r.id, i>> : i \in 1..Len(r.photos)} : r \in rows}

\* Next to the live server a run fetches every photo, or none.
Backup ==
    \E sqlOk \in BOOLEAN, failed \in {{}, PhotoRefs(guestbook_entries)} : main(sqlOk, failed)

\* The exporter is a batch job run out of band.  No handler of the server
\* reads or writes the backup folder, so a request served after a run behaves
\* as the same request served before it; the runs are therefore taken last,
\* over every store the requests can leave behind.
Online == runs = 0

Next ==
    \/ Online /\ Submit
    \/ Online /\ Feed
    \/ Online /\ ListAll
    \/ Online /\ Approve
    \/ Online /\ Remove
    \/ Online /\ Tick
    \/ Backup

Spec == Init /\ [][Next]_vars

\* The submission service alone, over the full range of submissions.
SubmitCase ==
    \E s \in SubmissionCases :
        PostEntries(FormBody(s.name, s.note, s.private), s.files, s.sqlOk)

NextSubmit == SubmitCase

SubmitSpec == Init /\ [][NextSubmit]_vars

(***************************************************************************)
(* The exporter alone, over a guestbook that has been closed: the table is *)
(* any table the server can leave behind with ids up to MaxEntryId, and the*)
(* two scripts run any number of times in any order.                       *)
(***************************************************************************)
\* What the guests uploaded: three photos with entry 2, one with entry 4.
PhotosOfEntry(id) ==
    CASE id = 2 -> <<5, 6, 7>>
      [] id = 4 -> <<8>>
      [] OTHER -> <<>>

ExportedRow(id, approved) ==
    [id |-> id, name |-> TextOfLength(1), note |-> <<"<", "3">>,
     photos |-> PhotosOfEntry(id), approved |-> approved, created_at |-> id]

\* Rows are inserted one after the other, so created_at grows with id; rows
\* may have been removed, and each row is approved or not.
ExportedTables ==
    UNION {{{ExportedRow(id, approved[id]) : id \in ids} : approved \in [ids -> BOOLEAN]} :
              ids \in SUBSET (1..MaxEntryId)}

ExportInit ==
    /\ ADMIN_PASSWORD = Undefined
    /\ cloudinaryConfigured = TRUE
    /\ guestbook_entries \in ExportedTables
    /\ id_seq = MaxEntryId
    /\ now = MaxEntryId
    /\ removed = (1..MaxEntryId) \ RowIds(guestbook_entries)
    /\ req = [op |-> "listen"]
    /\ res = Response(0, <<>>)
    /\ uploads = <<>>
    /\ entry = NoEntry
    /\ html = NotRendered
    /\ BACKUP_DIR = EmptyDir
    /\ runs = 0

\* A run in which the download of any set of the photos fails, or the query.
Export ==
    \/ \E failed \in SUBSET PhotoRefs(guestbook_entries) : main(TRUE, failed)
    \/ main(FALSE, {})

Regenerate == generate_html

NextExport == Export \/ Regenerate

ExportSpec == ExportInit /\ [][NextExport]_vars


(***************************************************************************)
(* Rendering one entry at a time.                                          *)
(***************************************************************************)
Render ==
    /\ html = NotRendered
    /\ html' = renderEntry(entry)
    /\ UNCHANGED <<ADMIN_PASSWORD, cloudinaryConfigured, guestbook_entries, id_seq,
                   now, removed, req, res, uploads, entry, BACKUP_DIR, runs>>

\* Texts the exporter is given: every string of up to MaxTextLen characters
\* over the markup characters and the letters of an entity, in one field,
\* next to a fixed text in the other field.
TextChars == {"&", "<", ">", "\"", "l", "t", ";"}

Texts(maxLen) == UNION {[1..n -> TextChars] : n \in 0..maxLen}

ScriptNote ==
    <<"<", "s", "c", "r", "i", "p", "t", ">", "a", "l", "e", "r", "t", "(", "1", ")",
      "<", "/", "s", "c", "r", "i", "p", "t", ">">>
AlexAndJo == <<"A", "l", "e", "x", " ", "&", " ", "J", "o">>

ExportedEntries(maxLen) ==
    {[id |-> 1, name |-> t, note |-> ScriptNote] : t \in Texts(maxLen)}
    \cup {[id |-> 1, name |-> AlexAndJo, note |-> t] : t \in Texts(maxLen)}

EscapeInit ==
    /\ ServerInit
    /\ ADMIN_PASSWORD = Undefined
    /\ cloudinaryConfigured = TRUE
    /\ entry \in ExportedEntries(MaxTextLen)
    /\ html = NotRendered
    /\ BACKUP_DIR = EmptyDir
    /\ runs = 0

EscapeSpec == EscapeInit /\ [][Render]_vars


(***************************************************************************)
(*                              PROPERTIES                                 *)
(***************************************************************************)
\* A step in which a handler ran (every step but Tick and Render).
Handled == ~(UNCHANGED <<guestbook_entries, id_seq, removed, req, res, uploads>>)

PostOp   == "POST /api/entries"
FeedOp   == "GET /api/entries"
ListOp   == "GET /api/admin/entries"
PatchOp  == "PATCH /api/admin/entries/:id"
DeleteOp == "DELETE /api/admin/entries/:id"

\* name of length 1..120 and a non-empty note, as the contract words it.
TextIsValid(body) ==
    /\ "name" \in DOMAIN body /\ Len(body["name"].v) \in 1..120
    /\ "note" \in DOMAIN body /\ Len(body["note"].v) >= 1

\* The step inserted exactly one row, with a fresh id, and touched no other.
InsertedOne(r) ==
    /\ r \notin guestbook_entries
    /\ r.id \notin RowIds(guestbook_entries)
    /\ guestbook_entries' = guestbook_entries \cup {r}

\* C1: every entry the Public Feed returns is approved in the store at the
\* moment of the read, and no entry whose approved flag is false is returned.
C1_FeedOnlyApproved ==
    (req.op = FeedOp /\ res.status = 200) =>
        /\ \A i \in 1..Len(res.body) :
              \E r \in guestbook_entries : r.id = res.body[i].id /\ r.approved = TRUE
        /\ \A r \in guestbook_entries :
              r.approved = FALSE => \A i \in 1..Len(res.body) : res.body[i].id # r.id

C1_Witness ==
    /\ req.op = FeedOp /\ res.status = 200 /\ Len(res.body) >= 1
    /\ \E r \in guestbook_entries : r.approved = FALSE

\* C2 as stated: a submission with a valid name and note and a working store
\* succeeds, creates exactly one entry, approved = !isPrivate, whatever files
\* were supplied.
C2_AnyFiles ==
    [][(Handled /\ req'.op = PostOp /\ TextIsValid(req'.body) /\ req'.sqlOk) =>
          /\ res'.status = 200
          /\ \E r \in guestbook_entries' :
                /\ InsertedOne(r)
                /\ r.id = res'.body.entry.id
                /\ r.approved = ~IsPrivate(req'.body)]_vars

\* At most 5 file parts, every one of an accepted image type below 25 MB.
FilesPass(files) ==
    /\ Len(files) <= 5
    /\ \A i \in 1..Len(files) : files[i].mimetype \in allowed => files[i].size < 25

\* More than 5 file parts, or one of an accepted image type above 25 MB.
FilesRefused(files) ==
    \/ Len(files) > 5
    \/ \E i \in 1..Len(files) : files[i].mimetype \in allowed /\ files[i].size > 25

\* C2 amended: with at most 5 files, every accepted-type image among them
\* below 25 MB, the submission succeeds, creates exactly one entry and
\* approved = !isPrivate, however many of the files ingested; with more than 5
\* files, or an accepted-type image above 25 MB, it is answered 400 and no
\* entry is created.
C2_Submit ==
    [][(Handled /\ req'.op = PostOp /\ TextIsValid(req'.body) /\ req'.sqlOk) =>
          /\ FilesPass(req'.files) =>
                /\ res'.status = 200
                /\ \E r \in guestbook_entries' :
                      /\ InsertedOne(r)
                      /\ r.id = res'.body.entry.id
                      /\ r.approved = ~IsPrivate(req'.body)
          /\ FilesRefused(req'.files) =>
                /\ res'.status = 400
                /\ guestbook_entries' = guestbook_entries]_vars

C2_Witness ==
    /\ req.op = PostOp /\ res.status = 200
    /\ IsPrivate(req.body)
    /\ Len(req.files) = 2 /\ Len(uploads) = 1
    /\ \E r \in guestbook_entries :
          r.id = res.body.entry.id /\ r.approved = FALSE /\ Len(r.name) = 120

\* C3: a submission whose name is missing, empty or longer than 120, or whose
\* note is missing or empty, is answered 400, leaves the entries unchanged and
\* passes no file to the media store.
C3_InvalidRejected ==
    [][(Handled /\ req'.op = PostOp /\ ~TextIsValid(req'.body)) =>
          /\ res'.status = 400
          /\ guestbook_entries' = guestbook_entries
          /\ id_seq' = id_seq
          /\ uploads' = <<>>]_vars

C3_Witness ==
    /\ req.op = PostOp /\ res.status = 400
    /\ "name" \in DOMAIN req.body /\ Len(req.body["name"].v) = 121
    /\ "note" \in DOMAIN req.body /\ Len(req.body["note"].v) > 0
    /\ Len(req.files) = 1 /\ uploads = <<>>
    /\ guestbook_entries # {}


AdminOps == {ListOp, PatchOp, DeleteOp}

\* The credential is missing, or is not the configured secret.
BadCredential(headers) ==
    \/ "x-admin-password" \notin DOMAIN headers
    \/ headers["x-admin-password"] # ADMIN_PASSWORD

\* C4: an admin request with a missing or wrong credential is answered 401 and
\* has no side effect, whatever the configuration of the secret.
C4_BadCredentialRejected ==
    [][(Handled /\ req'.op \in AdminOps /\ BadCredential(req'.headers)) =>
          /\ res'.status = 401
          /\ guestbook_entries' = guestbook_entries
          /\ removed' = removed]_vars

\* The request passed adminAuth and, for PATCH, carries a boolean flag.
AuthorizedModeration(r) ==
    /\ r.op \in {PatchOp, DeleteOp}
    /\ Get(r.headers, "x-admin-password") = ADMIN_PASSWORD
    /\ r.op = PatchOp => r.body.approved.type = "boolean"

\* C5: an authorized approve or remove whose id matches no entry is answered
\* 404 and leaves the store as it was.
C5_UnknownIdNotFound ==
    [][(Handled /\ AuthorizedModeration(req') /\ req'.sqlOk
          /\ req'.params.id \notin RowIds(guestbook_entries)) =>
          /\ res'.status = 404
          /\ guestbook_entries' = guestbook_entries]_vars

C5_Witness ==
    /\ req.op = DeleteOp /\ res.status = 404
    /\ req.params.id \in removed
    /\ guestbook_entries # {}

\* A file with a media problem: unsupported type, above 25 MB, or refused by
\* the external store.
ProblemFile(f) == f.mimetype \notin allowed \/ f.size > 25 \/ ~f.cloudOk

OmitsProblemFiles(photos, files) ==
    \A i \in 1..Len(files) :
        ProblemFile(files[i]) => \A j \in 1..Len(photos) : photos[j] # files[i].url

C7_PhotosAtMostFive ==
    \A r \in guestbook_entries : Len(r.photos) \in 0..5

C7_Witness ==
    /\ req.op = PostOp /\ Len(req.files) > 5 /\ res.status = 400
    /\ \E r \in guestbook_entries : Len(r.photos) = 5

\* The ids a listing response carries.
ListedIds(r) == {r.body[i].id : i \in 1..Len(r.body)}

\* C8: ids are unique and never reused: a new entry's id differs from every id
\* assigned before, removed ones included; a removed id appears in no later
\* listing; a removal leaves the surviving entries and their ids as they were.
C8_IdsNeverReused ==
    [][/\ \A id \in RowIds(guestbook_entries') \ RowIds(guestbook_entries) :
              id \notin removed
       /\ Cardinality(RowIds(guestbook_entries')) = Cardinality(guestbook_entries')
       /\ RowIds(guestbook_entries') \cap removed' = {}
       /\ (req'.op \in {FeedOp, ListOp} /\ res'.status = 200) =>
              ListedIds(res') \cap removed' = {}
       /\ (Handled /\ req'.op = DeleteOp /\ res'.status = 200) =>
              /\ req'.params.id \in removed'
              /\ guestbook_entries' =
                    {r \in guestbook_entries : r.id # req'.params.id}]_vars

C8_Witness ==
    /\ req.op = PostOp /\ res.status = 200
    /\ removed # {}
    /\ \A id \in removed : res.body.entry.id > id

Descending(body) ==
    \A i, j \in 1..Len(body) : i < j => body[i].created_at >= body[j].created_at
Ascending(body) ==
    \A i, j \in 1..Len(body) : i < j => body[i].created_at <= body[j].created_at

\* C9: the Public Feed and the admin listing are in created_at-descending
\* order; a feed read right after a successful public submission shows the new
\* entry first; the exporter reads the entries in created_at-ascending order.
C9_ListingOrder ==
    [][/\ (req'.op \in {FeedOp, ListOp} /\ res'.status = 200) => Descending(res'.body)
       /\ (req'.op = "backup" /\ res'.status = 0) => Ascending(res'.body)
       /\ (/\ req.op = PostOp /\ res.status = 200 /\ ~IsPrivate(req.body)
           /\ Handled /\ req'.op = FeedOp /\ res'.status = 200) =>
              /\ Len(res'.body) >= 1
              /\ res'.body[1].id = res.body.entry.id
              /\ \A i \in 2..Len(res'.body) :
                    res'.body[i].created_at < res'.body[1].created_at]_vars

C9_Witness ==
    /\ req.op = FeedOp /\ res.status = 200 /\ Len(res.body) = 2
    /\ res.body[1].created_at > res.body[2].created_at + 1
    /\ res.body[1].id > res.body[2].id

\* Decoding of the four entities, left to right.
RECURSIVE Unescape(_)
Unescape(s) ==
    LET starts(e) == Len(s) >= Len(e) /\ SubSeq(s, 1, Len(e)) = e
        rest(e) == SubSeq(s, Len(e) + 1, Len(s))
    IN IF s = <<>> THEN <<>>
       ELSE IF starts(AmpEntity) THEN <<"&">> \o Unescape(rest(AmpEntity))
       ELSE IF starts(LtEntity) THEN <<"<">> \o Unescape(rest(LtEntity))
       ELSE IF starts(GtEntity) THEN <<">">> \o Unescape(rest(GtEntity))
       ELSE IF starts(QuotEntity) THEN <<"\"">> \o Unescape(rest(QuotEntity))
       ELSE <<Head(s)>> \o Unescape(Tail(s))

\* No live markup character, and every ampersand begins one of the entities.
IsEscapedText(s) ==
    /\ \A i \in 1..Len(s) : s[i] \notin {"<", ">", "\""}
    /\ \A i \in 1..Len(s) :
          s[i] = "&" =>
              \E e \in {AmpEntity, LtEntity, GtEntity, QuotEntity} :
                  i + Len(e) - 1 <= Len(s) /\ SubSeq(s, i, i + Len(e) - 1) = e

EscapedScriptNote ==
    <<"&", "l", "t", ";", "s", "c", "r", "i", "p", "t", "&", "g", "t", ";",
      "a", "l", "e", "r", "t", "(", "1", ")",
      "&", "l", "t", ";", "/", "s", "c", "r", "i", "p", "t", "&", "g", "t", ";">>

\* C10: the text the exporter embeds for a name or a note has no '<', '>' or
\* '"', each '&' in it begins &amp; &lt; &gt; or &quot;, un-escaping it gives
\* the original back, and the script note comes out as &lt;script&gt;...
C10_EscapedText ==
    html.done =>
        /\ IsEscapedText(html.entry_name) /\ IsEscapedText(html.entry_note)
        /\ Unescape(html.entry_name) = entry.name
        /\ Unescape(html.entry_note) = entry.note
        /\ entry.note = ScriptNote => html.entry_note = EscapedScriptNote

C10_Witness ==
    /\ html.done
    /\ entry.name = <<"&", "l", "t", ";">>
    /\ entry.note = ScriptNote
    /\ html.entry_name = <<"&", "a", "m", "p", ";", "l", "t", ";">>

BackupOp   == "backup"
GenerateOp == "generate-html"

FullWithTests   == "time-capsule-full-with-tests.html"
PublicWithTests == "time-capsule-public-with-tests.html"
FullClean       == "time-capsule-full.html"
PublicClean     == "time-capsule-public.html"
MainDocuments   == {FullWithTests, PublicWithTests, FullClean, PublicClean}

\* The documents in the backup folder, by file name.
Written(file) == \E f \in BACKUP_DIR.html : f.name = file
Document(file) == (CHOOSE f \in BACKUP_DIR.html : f.name = file).content

\* The ids of the entry blocks of a document, in the order of the document.
BlockIds(doc) == [k \in 1..Len(doc.entries) |-> doc.entries[k].id]

\* The latest step was a run of the backup script whose query succeeded.
BackupRan == req.op = BackupOp /\ req.sqlOk

\* imgs shows exactly the photos of row r whose download did not fail, in the
\* order of r.photos: as many images as downloads that succeeded, the j-th
\* image carrying the bytes of the j-th photo that was downloaded.
EmbedsFetched(imgs, r, failed) ==
    LET fetched == {i \in 1..Len(r.photos) : <<r.id, i>> \notin failed}
        nth(j) == CHOOSE i \in fetched : Cardinality({x \in fetched : x <= i}) = j
    IN /\ Len(imgs) = Cardinality(fetched)
       /\ \A j \in 1..Len(imgs) : imgs[j].base64 = r.photos[nth(j)]

\* C11: whatever set of photo downloads fails, a run of the exporter whose
\* query succeeded completes and writes the raw export and the four
\* documents; every entry is in the complete document; in every document each
\* entry embeds exactly the photos that were downloaded, in their order; and
\* the raw export lists every entry with all of its original urls.
C11_FailedPhotosOmitted ==
    BackupRan =>
        /\ res.status = 0
        /\ BACKUP_DIR.json.exists
        /\ \A file \in MainDocuments : Written(file)
        /\ {Document(FullWithTests).entries[k].id :
                k \in 1..Len(Document(FullWithTests).entries)} = RowIds(guestbook_entries)
        /\ Len(Document(FullWithTests).entries) = Cardinality(guestbook_entries)
        /\ \A file \in MainDocuments :
              \A k \in 1..Len(Document(file).entries) :
                 \E r \in guestbook_entries :
                    /\ r.id = Document(file).entries[k].id
                    /\ EmbedsFetched(Document(file).entries[k].img, r, req.failed)
        /\ Len(BACKUP_DIR.json.data) = Cardinality(guestbook_entries)
        /\ \A r \in guestbook_entries :
              \E k \in 1..Len(BACKUP_DIR.json.data) :
                 /\ BACKUP_DIR.json.data[k].id = r.id
                 /\ BACKUP_DIR.json.data[k].photo_urls = r.photos

\* One of the three photos of entry 2 fails: two are embedded, three listed.
C11_Witness ==
    /\ BackupRan /\ res.status = 0
    /\ req.failed = {<<2, 2>>}
    /\ \E k \in 1..Len(Document(FullWithTests).entries) :
          /\ Document(FullWithTests).entries[k].id = 2
          /\ Len(Document(FullWithTests).entries[k].img) = 2
          /\ Document(FullWithTests).entries[k].img[2].base64 = 7
    /\ \E k \in 1..Len(BACKUP_DIR.json.data) :
          BACKUP_DIR.json.data[k].id = 2 /\ Len(BACKUP_DIR.json.data[k].photo_urls) = 3
    /\ \E r \in guestbook_entries : r.id = 4

\* The names of the documents in the backup folder.
DocumentNames == {f.name : f \in BACKUP_DIR.html}

\* The number of photos each entry block of a document embeds, by entry id.
EmbeddedCounts(doc) ==
    {<<doc.entries[k].id, Len(doc.entries[k].img)>> : k \in 1..Len(doc.entries)}

\* A run of one of the two scripts in which the network does not interfere:
\* the query succeeds and no download fails, or the run is offline.
UndisturbedRun(r) ==
    \/ r.op = BackupOp /\ r.sqlOk /\ r.failed = {}
    \/ r.op = GenerateOp

\* C12: a run of the exporter that follows a completed run over the same
\* table, the offline re-run included, completes and produces documents for
\* the same variants, with the same number of entries in each variant and the
\* same number of embedded photos for every entry.  (Stated for the runs in
\* which every download succeeds, so that the network cannot be what makes
\* two runs differ.)
C12_RunsAgree ==
    [][(/\ UndisturbedRun(req) /\ res.status = 0
        /\ runs' = runs + 1 /\ UndisturbedRun(req')
        /\ guestbook_entries' = guestbook_entries) =>
          /\ res'.status = 0
          /\ DocumentNames' = DocumentNames
          /\ \A file \in DocumentNames :
                /\ Len(Document(file).entries)' = Len(Document(file).entries)
                /\ EmbeddedCounts(Document(file))' = EmbeddedCounts(Document(file))]_vars

\* The test posts, generate-html.js:29: "First 3 entries are test posts
\* (IDs 1, 2, 4)".
TestIds == {1, 2, 4}

\* The entry blocks of doc are those of exactly the rows given.
Exactly(doc, rows) ==
    /\ {doc.entries[k].id : k \in 1..Len(doc.entries)} = RowIds(rows)
    /\ Len(doc.entries) = Cardinality(rows)

\* C15: a run of the exporter emits four documents: the complete one holds
\* all entries, the public one exactly the approved entries, the clean one
\* exactly the entries whose id is not a test id, the clean public one exactly
\* the approved entries whose id is not a test id, whatever entries the table
\* holds.
C15_VariantsById ==
    (BackupRan /\ res.status = 0) =>
        /\ \A file \in MainDocuments : Written(file)
        /\ Exactly(Document(FullWithTests), guestbook_entries)
        /\ Exactly(Document(PublicWithTests), {r \in guestbook_entries : r.approved})
        /\ Exactly(Document(FullClean), {r \in guestbook_entries : r.id \notin TestIds})
        /\ Exactly(Document(PublicClean),
                   {r \in guestbook_entries : r.approved /\ r.id \notin TestIds})

\* Row q is row r but for its approved flag.
SameButApproved(q, r) ==
    /\ q.id = r.id /\ q.name = r.name /\ q.note = r.note
    /\ q.photos = r.photos /\ q.created_at = r.created_at

\* C13: a successful approve(id, b) sets the approved flag of the entry with
\* that id to b and changes nothing else: no other field of that entry, no
\* field of any other entry, no entry added or removed.  No step changes the
\* name, note, photos or created_at of an entry that stays in the table, and
\* the admin listing and the Public Feed show every entry with the name, note
\* and photos (same elements, same order) the table holds for it.
C13_ApproveChangesOnlyFlag ==
    [][/\ (Handled /\ req'.op = PatchOp /\ res'.status = 200) =>
              /\ Cardinality(guestbook_entries') = Cardinality(guestbook_entries)
              /\ \A r \in guestbook_entries :
                    \E q \in guestbook_entries' :
                       /\ SameButApproved(q, r)
                       /\ q.approved = IF r.id = req'.params.id
                                       THEN req'.body.approved.v ELSE r.approved
       /\ \A r \in guestbook_entries, q \in guestbook_entries' :
              q.id = r.id => SameButApproved(q, r)
       /\ (req'.op \in {FeedOp, ListOp} /\ res'.status = 200) =>
              \A i \in 1..Len(res'.body) :
                 \E q \in guestbook_entries' :
                    /\ q.id = res'.body[i].id
                    /\ q.name = res'.body[i].name
                    /\ q.note = res'.body[i].note
                    /\ q.photos = res'.body[i].photos
                    /\ q.created_at = res'.body[i].created_at]_vars

\* An entry with a photo has been approved while another entry stays hidden.
C13_Witness ==
    /\ req.op = PatchOp /\ res.status = 200 /\ req.body.approved = Bool(TRUE)
    /\ \E r \in guestbook_entries :
          r.id = req.params.id /\ r.approved = TRUE /\ r.photos = <<2>>
    /\ \E r \in guestbook_entries : r.id # req.params.id /\ r.approved = FALSE

\* The media ingest of a supplied file succeeded: the file is of an accepted
\* type, the media store is configured, and the upload resolved.
Ingested(f) == f.mimetype \in allowed /\ cloudinaryConfigured /\ f.cloudOk

\* photos is the sequence of the urls of the files whose ingest succeeded, in
\* the order of files: as many urls as ingested files, the j-th url being the
\* url of the j-th ingested file.
UrlsOfIngested(photos, files) ==
    LET ok == {i \in 1..Len(files) : Ingested(files[i])}
        nth(j) == CHOOSE i \in ok : Cardinality({x \in ok : x <= i}) = j
    IN /\ Len(photos) = Cardinality(ok)
       /\ \A j \in 1..Len(photos) : photos[j] = files[nth(j)].url

\* C14: the photos of a created entry are exactly the reference urls of the
\* supplied files whose ingest succeeded, in the order the files were
\* submitted, and no file is passed to the media store more than once.
C14_PhotosAreIngestedUrls ==
    [][(Handled /\ req'.op = PostOp /\ res'.status = 200) =>
          /\ \E r \in guestbook_entries' :
                /\ InsertedOne(r)
                /\ r.id = res'.body.entry.id
                /\ UrlsOfIngested(r.photos, req'.files)
          /\ Len(uploads') <= Len(req'.files)
          /\ \A i, j \in 1..Len(uploads') : i # j => uploads'[i] # uploads'[j]
          /\ \A i \in 1..Len(uploads') :
                \E k \in 1..Len(req'.files) : req'.files[k] = uploads'[i]]_vars

\* The second of three files is refused by the media store.
C14_Witness ==
    /\ req.op = PostOp /\ res.status = 200
    /\ Len(req.files) = 3 /\ ~req.files[2].cloudOk
    /\ Len(uploads) = 3
    /\ \E r \in guestbook_entries : r.id = res.body.entry.id /\ r.photos = <<1, 3>>

====
